---- MODULE Spec2Model ----
(***************************************************************************)
(* RGMII PHY for the Cologne Chip GateMate FPGA                            *)
(* (liteeth/phy/gatematergmii.py).                                        *)
(*                                                                         *)
(* Two parts are modelled:                                                 *)
(*  - the clocked data path: the RX pipeline (DDR capture, rx_ctl_reg /    *)
(*    rx_data_reg, source.valid / source.data, the last detector), the TX  *)
(*    DDR encoder and the reset synchronizers of the CRG; one Tick action  *)
(*    is one edge of the shared eth_rx / eth_tx clock;                     *)
(*  - construction: the iodly_timing lookup, the tap computation           *)
(*    int(delay / iodly) in IEEE-754 double arithmetic and the assert,     *)
(*    for the RX path, the CRG and the top-level PHY.                      *)
(***************************************************************************)
EXTENDS Integers, Sequences, FiniteSets, TLC

VARIABLES
    \* ---- CRG, reset
    with_hw_init_reset,  \* constructor argument of LiteEthPHYRGMIICRG
    reset_storage,       \* self._reset.storage (CSR bit)
    hw_reset,            \* self.hw_reset.reset (power-on pulse), 0 when absent
    rx_rst_sync,         \* AsyncResetSynchronizer(cd_eth_rx): <<rst1, cd.rst>>
    tx_rst_sync,         \* AsyncResetSynchronizer(cd_eth_tx): <<rst1, cd.rst>>
    \* ---- RX path
    rx_ctl,              \* Signal(2), DDR capture of the control line
    rx_ctl_reg,          \* Signal(2)
    rx_ctl_reg_d,        \* Signal(2)
    rx_data,             \* Signal(8), DDR capture of the four data lines
    rx_data_reg,         \* Signal(8)
    source_valid,        \* source.valid
    source_data,         \* source.data
    \* ---- TX path
    sink_valid,          \* sink.valid presented at the latest tick
    sink_data,           \* sink.data presented at the latest tick
    tx_ctl_oddrx1f,      \* control line, <<rising sub-sample, falling sub-sample>>
    tx_data_oddrx1f,     \* data lines 0..3, each <<rising, falling>>
    \* ---- observation
    hist,                \* the latest RX samples, newest first: line input and cd_eth_rx.rst seen
    prev,                \* source.valid and source.last as they were before the latest tick
    rst_ticks,           \* ticks taken since the effective reset was last asserted, capped
    eth_rx_ticks,        \* edges of cd_eth_rx.clk so far, capped
    eth_tx_ticks,        \* edges of cd_eth_tx.clk so far, capped
    sent,                \* loopback only: the latest elements offered to the sink, newest first
    cut_frame,           \* progress of a frame that a reset interrupted, see CutStages
    \* ---- construction
    cfg,                 \* constructor arguments: perf_mode, tx_delay, rx_delay (picoseconds)
    rx_obj,              \* outcome of LiteEthPHYRGMIIRX(pads, rx_delay, perf_mode)
    crg_obj,             \* outcome of LiteEthPHYRGMIICRG(..., tx_delay, perf_mode)
    phy_obj              \* outcome of LiteEthPHYRGMII(..., tx_delay, rx_delay, perf_mode)

crgVars == <<with_hw_init_reset, reset_storage, hw_reset, rx_rst_sync, tx_rst_sync>>
rxVars  == <<rx_ctl, rx_ctl_reg, rx_ctl_reg_d, rx_data, rx_data_reg,
             source_valid, source_data>>
txVars  == <<sink_valid, sink_data, tx_ctl_oddrx1f, tx_data_oddrx1f>>
obsVars == <<hist, prev, rst_ticks, eth_rx_ticks, eth_tx_ticks, sent, cut_frame>>
cfgVars == <<cfg, rx_obj, crg_obj, phy_obj>>
vars    == <<crgVars, rxVars, txVars, obsVars, cfgVars>>

----------------------------------------------------------------------------
(* Bounds and input sets *)

\* register stages between the RX lines and the source: DDR capture,
\* rx_ctl_reg / rx_data_reg, source.valid / source.data
PipelineDepth == 3
\* cap of the rst_ticks counter
MaxRstTicks == 2
\* cap of the eth_rx_ticks and eth_tx_ticks counters
MaxTicks == 3

\* bytes driven on the RX lines and offered to the TX sink
RxBytes == {0, 75}
TxBytes == {0, 255, 170, 75}

----------------------------------------------------------------------------
(* Bit helpers *)

\* Signal slicing x[i]
Bit(x, i) == (x \div (2 ^ i)) % 2

\* the four data lines carrying byte b: line i is <<b[i], b[4+i]>>
LinesOf(b) == [i \in 0..3 |-> <<Bit(b, i), Bit(b, 4 + i)>>]

----------------------------------------------------------------------------
(* Python float arithmetic: IEEE-754 binary64, round to nearest, ties to    *)
(* even.  A float is [s, m, e] with value s * m * 2^e, s in {1, -1}, and m  *)
(* either <<0, 0>> or a 53-bit significand.  Significands are written in    *)
(* two limbs <<hi, lo>> of 27 bits, hi * 2^27 + lo.                         *)

Limb == 134217728
Zero2 == <<0, 0>>
\* 10^12 = 7450 * 2^27 + 77926400
Ten12 == <<7450, 77926400>>
\* 2^53, one past the largest significand
Two53 == <<67108864, 0>>

Nat2(n) == <<n \div Limb, n % Limb>>
GE2(x, y) == x[1] > y[1] \/ (x[1] = y[1] /\ x[2] >= y[2])
Sub2(x, y) ==
    IF x[2] >= y[2] THEN <<x[1] - y[1], x[2] - y[2]>>
    ELSE <<x[1] - y[1] - 1, x[2] + Limb - y[2]>>
Dbl2(x) == <<2 * x[1] + (2 * x[2]) \div Limb, (2 * x[2]) % Limb>>
Inc2(x) == IF x[2] + 1 = Limb THEN <<x[1] + 1, 0>> ELSE <<x[1], x[2] + 1>>
Half2(x) == <<x[1] \div 2, (x[1] % 2) * (Limb \div 2) + x[2] \div 2>>

\* the least a >= 0 with num * 2^a >= den, and num * 2^a, for 0 < num
RECURSIVE Normalise(_, _, _)
Normalise(num, den, a) ==
    IF GE2(num, den) THEN [num |-> num, a |-> a]
    ELSE CHOOSE out \in {Normalise(n2, den, a + 1) : n2 \in {Dbl2(num)}} : TRUE

\* one step of the long division: remainder st.r and quotient st.q gain a bit
QuotStep(st, den) ==
    IF GE2(Dbl2(st.r), den)
    THEN [r |-> Sub2(Dbl2(st.r), den), q |-> Inc2(Dbl2(st.q))]
    ELSE [r |-> Dbl2(st.r), q |-> Dbl2(st.q)]

\* k steps of the long division
RECURSIVE QuotBits(_, _, _)
QuotBits(st, den, k) ==
    IF k = 0 THEN st
    ELSE CHOOSE out \in {QuotBits(nx, den, k - 1) : nx \in {QuotStep(st, den)}} : TRUE

\* rounding of the 54-bit quotient qr.q with remainder qr.r to 53 bits, ties
\* to even; a is the scaling Normalise applied
RoundOff(qr, a) ==
    LET m  == Half2(qr.q)
        up == qr.q[2] % 2 = 1 /\ (qr.r # Zero2 \/ m[2] % 2 = 1)
        mr == IF up THEN Inc2(m) ELSE m
    IN  IF mr = Two53 THEN [m |-> Half2(mr), e |-> 1 - 52 - a]
        ELSE [m |-> mr, e |-> 0 - 52 - a]

\* num / den correctly rounded, for 0 < num < 2 * den: the quotient is taken
\* to 54 bits, the last bit and the remainder decide the rounding
RoundedQuot(num, den) ==
    CHOOSE out \in
        {RoundOff(qr, n.a) :
            qr \in {QuotBits([r |-> Sub2(n.num, den), q |-> <<0, 1>>], den, 53) :
                       n \in {Normalise(num, den, 0)}},
            n \in {Normalise(num, den, 0)}} : TRUE

FloatZero == [s |-> 1, m |-> Zero2, e |-> 0]

\* the float literal n e-12 (n picoseconds), n an integer
FloatPs(n) ==
    IF n = 0 THEN FloatZero
    ELSE CHOOSE out \in
            {[s |-> IF n < 0 THEN 0 - 1 ELSE 1, m |-> q.m, e |-> q.e] :
                q \in {RoundedQuot(Nat2(IF n < 0 THEN 0 - n ELSE n), Ten12)}} : TRUE

\* x / y
FloatDiv(x, y) ==
    IF x.m = Zero2 THEN FloatZero
    ELSE CHOOSE out \in
            {[s |-> x.s * y.s, m |-> q.m, e |-> q.e + x.e - y.e] :
                q \in {RoundedQuot(x.m, y.m)}} : TRUE

\* int(x): truncation toward zero
FloatToInt(x) ==
    IF x.m = Zero2 \/ x.e <= 0 - 53 THEN 0
    ELSE IF x.e <= 0 - 27 THEN x.s * (x.m[1] \div (2 ^ (0 - x.e - 27)))
    ELSE x.s * (x.m[1] * 2 ^ (27 + x.e) + x.m[2] \div (2 ^ (0 - x.e)))

----------------------------------------------------------------------------
(* Construction: iodly_timing, LiteEthPHYRGMIIRX / CRG / PHY __init__.      *)
(* A str is a sequence of one-character strings.                            *)

LowerChars == <<"a", "b", "c", "d", "e", "f", "g", "h", "i", "j", "k", "l", "m",
                "n", "o", "p", "q", "r", "s", "t", "u", "v", "w", "x", "y", "z">>
UpperChars == <<"A", "B", "C", "D", "E", "F", "G", "H", "I", "J", "K", "L", "M",
                "N", "O", "P", "Q", "R", "S", "T", "U", "V", "W", "X", "Y", "Z">>

CharLower(c) ==
    IF \E i \in 1..26 : UpperChars[i] = c
    THEN LowerChars[CHOOSE i \in 1..26 : UpperChars[i] = c]
    ELSE c

\* str.lower() that leaves the str as it is
StrLowerNone(str) == str

\* str.lower()
StrLower(str) == [i \in 1..Len(str) |-> CharLower(str[i])]

Speed     == <<"s", "p", "e", "e", "d">>
Economy   == <<"e", "c", "o", "n", "o", "m", "y">>
Lowpower  == <<"l", "o", "w", "p", "o", "w", "e", "r">>
\* the default value of perf_mode
Undefined == <<"u", "n", "d", "e", "f", "i", "n", "e", "d">>

\* Timing data for each performance mode
iodly_timing ==
    [k \in {Speed, Economy, Lowpower} |->
        IF k = Speed THEN [best |-> FloatPs(30), typ |-> FloatPs(38), worst |-> FloatPs(50)]
        ELSE IF k = Economy THEN [best |-> FloatPs(38), typ |-> FloatPs(50), worst |-> FloatPs(65)]
        ELSE [best |-> FloatPs(50), typ |-> FloatPs(65), worst |-> FloatPs(85)]]

\* the statements both constructors share: lookup, tap computation, assert
\*   self._iodly = iodly_timing[perf_mode.lower()]["worst"]
\*   delay_taps  = int(delay/self._iodly)
\*   assert delay_taps < 16
TapsOf(delay, iodly) ==
    CHOOSE out \in
        {[status |-> IF taps < 16 THEN "ok" ELSE "AssertionError", iodly |-> w, taps |-> taps] :
            taps \in {FloatToInt(FloatDiv(d, w)) : d \in {delay}, w \in {iodly}},
            w \in {iodly}} : TRUE

TapsInit(delay, perf_mode) ==
    IF StrLower(perf_mode) \notin DOMAIN iodly_timing THEN [status |-> "KeyError"]
    ELSE TapsOf(delay, iodly_timing[StrLower(perf_mode)].worst)

\* LiteEthPHYRGMIIRX(pads, rx_delay, perf_mode)
RXInit(rx_delay, perf_mode) ==
    LET t == TapsInit(rx_delay, perf_mode)
    IN  IF t.status = "KeyError" THEN t
        ELSE [status |-> t.status, iodly |-> t.iodly, rx_delay_taps |-> t.taps]

\* LiteEthPHYRGMIICRG(clock_pads, pads, with_hw_init_reset, tx_delay, perf_mode)
CRGInit(tx_delay, perf_mode) ==
    LET t == TapsInit(tx_delay, perf_mode)
    IN  IF t.status = "KeyError" THEN t
        ELSE [status |-> t.status, iodly |-> t.iodly, tx_delay_taps |-> t.taps]

\* LiteEthPHYRGMII(clock_pads, pads, with_hw_init_reset, tx_delay, rx_delay, perf_mode):
\* the CRG, then the TX path, then the RX path, which is given pads and
\* rx_delay only and so runs with its default perf_mode
PHYInit(tx_delay, rx_delay, perf_mode) ==
    LET crg == CRGInit(tx_delay, perf_mode)
        rx  == RXInit(rx_delay, Undefined)
    IN  IF crg.status # "ok" THEN [status |-> crg.status, stage |-> "crg"]
        ELSE IF rx.status # "ok" THEN [status |-> rx.status, stage |-> "rx"]
        ELSE [status |-> "ok", crg |-> crg, rx |-> rx]

NoObj == [status |-> "none"]

\* the configurations the data path is run with: 0 taps and 15 taps
RunConfigs ==
    {[perf_mode |-> Speed, tx_delay |-> 0, rx_delay |-> 0],
     [perf_mode |-> Lowpower, tx_delay |-> 1300, rx_delay |-> 1300]}

----------------------------------------------------------------------------
(* TX path: LiteEthPHYRGMIITX *)

\* DDROutput(i1, i2, o): o carries i1 on the rising and i2 on the falling sub-sample
DDROutput(i1, i2) == <<i1, i2>>

\* Instance("CC_OBUF", p_DELAY_OBF = 0): the pad follows the DDR output
pads_tx_ctl == tx_ctl_oddrx1f
pads_tx_data == tx_data_oddrx1f

\* sink.ready held low while the eth_tx domain is in reset
sinkReadyGated == 1 - tx_rst_sync[2]

\* self.comb += sink.ready.eq(1)
sink_ready == 1

\* TXTick with i1 and i2 of the data DDROutput exchanged
TXTickSwapped(v, d) ==
    /\ sink_valid' = v
    /\ sink_data' = d
    /\ tx_ctl_oddrx1f' = DDROutput(v, v)
    /\ tx_data_oddrx1f' = [i \in 0..3 |-> DDROutput(Bit(d, 4 + i), Bit(d, i))]

\* TXTick with the control line forced idle while the eth_tx domain is in reset
TXTickGated(v, d) ==
    /\ sink_valid' = v
    /\ sink_data' = d
    /\ tx_ctl_oddrx1f' = IF tx_rst_sync[2] = 1 THEN DDROutput(0, 0) ELSE DDROutput(v, v)
    /\ tx_data_oddrx1f' = [i \in 0..3 |-> DDROutput(Bit(d, i), Bit(d, 4 + i))]

\* one eth_tx edge with (v, d) at the sink
TXTick(v, d) ==
    /\ sink_valid' = v
    /\ sink_data' = d
    /\ tx_ctl_oddrx1f' = DDROutput(v, v)
    /\ tx_data_oddrx1f' = [i \in 0..3 |-> DDROutput(Bit(d, i), Bit(d, 4 + i))]

----------------------------------------------------------------------------
(* RX path: LiteEthPHYRGMIIRX *)

\* DDRInputCtl with rx_ctl[0] high only when both sub-samples are high
DDRInputCtlBoth(line) == line[1] * line[2] + 2 * line[2]

\* DDRInput(i = rx_ctl_delayf, o1 = rx_ctl[0], o2 = rx_ctl[1])
DDRInputCtl(line) == line[1] + 2 * line[2]

\* DDRInputData with o1 and o2 exchanged: rising samples in the high nibble
DDRInputDataSwapped(lines) ==
    lines[0][2] + 2 * lines[1][2] + 4 * lines[2][2] + 8 * lines[3][2]
    + 16 * (lines[0][1] + 2 * lines[1][1] + 4 * lines[2][1] + 8 * lines[3][1])

\* DDRInput(i = rx_data_delayf[i], o1 = rx_data[i], o2 = rx_data[i+4]), i in range(4)
DDRInputData(lines) ==
    lines[0][1] + 2 * lines[1][1] + 4 * lines[2][1] + 8 * lines[3][1]
    + 16 * (lines[0][2] + 2 * lines[1][2] + 4 * lines[2][2] + 8 * lines[3][2])

\* last as a level: high while the delayed control bit is low
lastLevel == 1 - Bit(rx_ctl_reg_d, 0)

\* last without the inversion: high inside a frame
lastInside == Bit(rx_ctl_reg, 0) * Bit(rx_ctl_reg_d, 0)

\* self.comb += last.eq(~rx_ctl_reg[0] & rx_ctl_reg_d[0])
last == (1 - Bit(rx_ctl_reg, 0)) * Bit(rx_ctl_reg_d, 0)

\* self.comb += source.last.eq(last)
source_last == last

\* reset of the eth_rx / eth_tx clock domain: output of its synchronizer
cd_eth_rx_rst == rx_rst_sync[2]
cd_eth_tx_rst == tx_rst_sync[2]

\* RXTick with source.valid taken from the DDR capture, one stage early
RXTickShort(rxLine) ==
    /\ rx_ctl' = DDRInputCtl(rxLine.ctl)
    /\ rx_data' = DDRInputData(rxLine.data)
    /\ IF cd_eth_rx_rst = 1
       THEN /\ rx_ctl_reg' = 0
            /\ rx_data_reg' = 0
            /\ rx_ctl_reg_d' = 0
            /\ source_valid' = 0
            /\ source_data' = 0
       ELSE /\ rx_ctl_reg' = rx_ctl
            /\ rx_data_reg' = rx_data
            /\ rx_ctl_reg_d' = rx_ctl_reg
            /\ source_valid' = Bit(rx_ctl, 0)
            /\ source_data' = rx_data_reg

\* RXTick with rx_ctl_reg left out of the domain reset
RXTickNoRst(rxLine) ==
    /\ rx_ctl' = DDRInputCtl(rxLine.ctl)
    /\ rx_data' = DDRInputData(rxLine.data)
    /\ rx_ctl_reg' = rx_ctl
    /\ IF cd_eth_rx_rst = 1
       THEN /\ rx_data_reg' = 0
            /\ rx_ctl_reg_d' = 0
            /\ source_valid' = 0
            /\ source_data' = 0
       ELSE /\ rx_data_reg' = rx_data
            /\ rx_ctl_reg_d' = rx_ctl_reg
            /\ source_valid' = Bit(rx_ctl_reg, 0)
            /\ source_data' = rx_data_reg

\* RXTick with source.valid held low while the TX sink offers a byte
RXTickHalfDuplex(rxLine) ==
    /\ rx_ctl' = DDRInputCtl(rxLine.ctl)
    /\ rx_data' = DDRInputData(rxLine.data)
    /\ IF cd_eth_rx_rst = 1
       THEN /\ rx_ctl_reg' = 0
            /\ rx_data_reg' = 0
            /\ rx_ctl_reg_d' = 0
            /\ source_valid' = 0
            /\ source_data' = 0
       ELSE /\ rx_ctl_reg' = rx_ctl
            /\ rx_data_reg' = rx_data
            /\ rx_ctl_reg_d' = rx_ctl_reg
            /\ source_valid' = Bit(rx_ctl_reg, 0) * (1 - sink_valid)
            /\ source_data' = rx_data_reg

\* RXTick with rx_ctl_reg_d left out of the domain reset
RXTickKeepD(rxLine) ==
    /\ rx_ctl' = DDRInputCtl(rxLine.ctl)
    /\ rx_data' = DDRInputData(rxLine.data)
    /\ IF cd_eth_rx_rst = 1
       THEN /\ rx_ctl_reg' = 0
            /\ rx_data_reg' = 0
            /\ rx_ctl_reg_d' = rx_ctl_reg_d
            /\ source_valid' = 0
            /\ source_data' = 0
       ELSE /\ rx_ctl_reg' = rx_ctl
            /\ rx_data_reg' = rx_data
            /\ rx_ctl_reg_d' = rx_ctl_reg
            /\ source_valid' = Bit(rx_ctl_reg, 0)
            /\ source_data' = rx_data_reg

\* one eth_rx edge with the five lines carrying rxLine; the DDR capture cells
\* have no reset, the self.sync registers take their reset value under cd.rst
RXTick(rxLine) ==
    /\ rx_ctl' = DDRInputCtl(rxLine.ctl)
    /\ rx_data' = DDRInputData(rxLine.data)
    /\ IF cd_eth_rx_rst = 1
       THEN /\ rx_ctl_reg' = 0
            /\ rx_data_reg' = 0
            /\ rx_ctl_reg_d' = 0
            /\ source_valid' = 0
            /\ source_data' = 0
       ELSE /\ rx_ctl_reg' = rx_ctl
            /\ rx_data_reg' = rx_data
            /\ rx_ctl_reg_d' = rx_ctl_reg
            /\ source_valid' = Bit(rx_ctl_reg, 0)
            /\ source_data' = rx_data_reg

----------------------------------------------------------------------------
(* Clock and reset: LiteEthPHYRGMIICRG *)

\* reset without the power-on pulse: the request bit alone in both configurations
resetNoPulse == reset_storage

\* reset.eq(self._reset.storage | self.hw_reset.reset) / reset.eq(self._reset.storage)
reset ==
    IF with_hw_init_reset
    THEN (IF reset_storage = 1 \/ hw_reset = 1 THEN 1 ELSE 0)
    ELSE reset_storage

\* self.comb += pads.rst_n.eq(~reset)
pads_rst_n == 1 - reset

\* AsyncResetSynchronizer: two flip-flops, asynchronously set by the reset,
\* the first clocked to 0 and the second clocked from the first
SyncAssert == <<1, 1>>
\* a synchronizer of one flip-flop: released by the first edge after the reset
SyncClockOneStage(sync, rst) == IF rst = 1 THEN SyncAssert ELSE <<0, 0>>

SyncClock(sync, rst) == IF rst = 1 THEN SyncAssert ELSE <<0, sync[1]>>

\* the value of the effective reset for given request and pulse bits
ResetOf(storage, pulse) ==
    IF with_hw_init_reset
    THEN (IF storage = 1 \/ pulse = 1 THEN 1 ELSE 0)
    ELSE storage

Min(a, b) == IF a < b THEN a ELSE b

\* the effective reset rises while a frame is at the source (source.valid
\* high) and still on the control line (high at the last two edges)
CutsFrame(storage, pulse) ==
    /\ reset = 0
    /\ ResetOf(storage, pulse) = 1
    /\ source_valid = 1
    /\ Len(hist) >= 2
    /\ hist[1].ctl[1] = 1
    /\ hist[2].ctl[1] = 1

\* an asynchronous change of the reset inputs to (storage, pulse)
AsyncReset(storage, pulse) ==
    /\ reset_storage' = storage
    /\ cut_frame' = IF CutsFrame(storage, pulse) THEN 1 ELSE cut_frame
    /\ hw_reset' = pulse
    /\ UNCHANGED with_hw_init_reset
    /\ IF ResetOf(storage, pulse) = 1
       THEN /\ rx_rst_sync' = SyncAssert
            /\ tx_rst_sync' = SyncAssert
            /\ rst_ticks' = IF reset = 1 THEN rst_ticks ELSE 0
       ELSE /\ UNCHANGED <<rx_rst_sync, tx_rst_sync>>
            /\ rst_ticks' = 0
    /\ UNCHANGED <<rxVars, txVars, hist, prev, eth_rx_ticks, eth_tx_ticks, sent, cfgVars>>

\* a write of v to the _reset CSR
CSRWrite(v) == AsyncReset(v, hw_reset)

\* the power-on pulse of LiteEthPHYHWReset ends
HWResetRelease ==
    /\ hw_reset = 1
    /\ AsyncReset(reset_storage, 0)

----------------------------------------------------------------------------
(* The clock edge: cd_eth_tx.clk.eq(cd_eth_rx.clk), one edge clocks both domains *)

\* a frame interrupted by a reset, followed on the control line:
\*   0  none
\*   1  interrupted, and the control line high at every edge since
\*   2  the control line was low at the latest edge: the frame has ended
\*   3  one edge later, where last = ~rx_ctl_reg[0] & rx_ctl_reg_d[0] would mark it
CutStages == 0..3
CutNext(stage, ctlRise) ==
    CASE stage = 0 -> 0
      [] stage = 1 -> (IF ctlRise = 1 THEN 1 ELSE 2)
      [] stage = 2 -> 3
      [] stage = 3 -> 0

\* self.comb += self.cd_eth_rx.clk.eq(clock_pads.rx)
cd_eth_rx_clk(clock_pads_rx) == clock_pads_rx

\* the eth_tx domain on a clock of its own that stands still
cd_eth_tx_clkOwn(clock_pads_rx) == 0

\* self.comb += self.cd_eth_tx.clk.eq(self.cd_eth_rx.clk)
cd_eth_tx_clk(clock_pads_rx) == cd_eth_rx_clk(clock_pads_rx)

Observe(rxLine) ==
    [ctl |-> rxLine.ctl, data |-> rxLine.data, rst |-> cd_eth_rx_rst]

Tick(rxLine, v, d) ==
    /\ RXTick(rxLine)
    /\ TXTick(v, d)
    /\ rx_rst_sync' = SyncClock(rx_rst_sync, reset)
    /\ tx_rst_sync' = SyncClock(tx_rst_sync, reset)
    /\ hist' = SubSeq(<<Observe(rxLine)>> \o hist, 1, Min(Len(hist) + 1, PipelineDepth))
    /\ prev' = [valid |-> source_valid, last |-> source_last]
    /\ rst_ticks' = IF reset = 1 THEN Min(rst_ticks + 1, MaxRstTicks) ELSE 0
    /\ eth_rx_ticks' = Min(eth_rx_ticks + cd_eth_rx_clk(1), MaxTicks)
    /\ eth_tx_ticks' = Min(eth_tx_ticks + cd_eth_tx_clk(1), MaxTicks)
    /\ cut_frame' = CutNext(cut_frame, rxLine.ctl[1])
    /\ UNCHANGED <<with_hw_init_reset, reset_storage, hw_reset, cfgVars>>

\* what the five RX lines can carry during one tick
RxLine(r, f, b) == [ctl |-> <<r, f>>, data |-> LinesOf(b)]
RxLines == {RxLine(r, f, b) : r \in 0..1, f \in 0..1, b \in RxBytes}
\* the lines of an idle link, and an idle sink
IdleLine == RxLine(0, 0, 0)
IdleByte == 0

----------------------------------------------------------------------------
(* Data-path specifications *)

\* after construction: the self.sync registers and the CSR hold their reset
\* value 0; the DDR cells and, without a power-on pulse, the synchronizer
\* flip-flops hold whatever they powered up with
Init ==
    /\ with_hw_init_reset \in BOOLEAN
    /\ reset_storage = 0
    /\ hw_reset = IF with_hw_init_reset THEN 1 ELSE 0
    /\ rx_rst_sync \in IF with_hw_init_reset THEN {SyncAssert} ELSE {<<0, 0>>, <<0, 1>>, <<1, 1>>}
    /\ tx_rst_sync = rx_rst_sync
    /\ rx_ctl \in 0..3
    /\ rx_data \in RxBytes
    /\ rx_ctl_reg = 0
    /\ rx_ctl_reg_d = 0
    /\ rx_data_reg = 0
    /\ source_valid = 0
    /\ source_data = 0
    /\ sink_valid = 0
    /\ sink_data = 0
    /\ \E v \in 0..1 :
          /\ tx_ctl_oddrx1f = DDROutput(v, v)
          /\ tx_data_oddrx1f = LinesOf(IdleByte)
    /\ hist = <<>>
    /\ prev = [valid |-> 0, last |-> 0]
    /\ rst_ticks = 0
    /\ eth_rx_ticks = 0
    /\ eth_tx_ticks = 0
    /\ sent = <<>>
    /\ cut_frame = 0
    /\ cfg \in RunConfigs
    /\ rx_obj = RXInit(FloatPs(cfg.rx_delay), cfg.perf_mode)
    /\ crg_obj = CRGInit(FloatPs(cfg.tx_delay), cfg.perf_mode)
    /\ phy_obj = NoObj

ResetNext ==
    \/ \E v \in 0..1 : CSRWrite(v)
    \/ HWResetRelease

\* the RX lines take every value, the TX sink stays idle
NextRX ==
    \/ \E rxLine \in RxLines : Tick(rxLine, 0, IdleByte) /\ UNCHANGED sent
    \/ ResetNext

SpecRX == Init /\ [][NextRX]_vars

\* the TX sink takes every value, the RX lines stay idle
NextTX ==
    \/ \E v \in 0..1, d \in TxBytes : Tick(IdleLine, v, d) /\ UNCHANGED sent
    \/ ResetNext

SpecTX == Init /\ [][NextTX]_vars

\* both sides driven, the control line's two sub-samples equal
Next ==
    \/ \E r \in 0..1, b \in RxBytes, v \in 0..1, d \in RxBytes :
          Tick(RxLine(r, r, b), v, d) /\ UNCHANGED sent
    \/ ResetNext

Spec == Init /\ [][Next]_vars

\* loopback: the TX pads wired to the RX pads, so an edge samples what the
\* TX DDR outputs drove since the edge before; the sink takes the bytes of
\* RxBytes, valid or not
LoopLine == [ctl |-> pads_tx_ctl, data |-> pads_tx_data]

Sent(v, d) ==
    SubSeq(<<[valid |-> v, data |-> d]>> \o sent, 1, Min(Len(sent) + 1, PipelineDepth + 1))

NextLoop ==
    \/ \E v \in 0..1, d \in RxBytes : Tick(LoopLine, v, d) /\ sent' = Sent(v, d)
    \/ ResetNext

SpecLoop == Init /\ [][NextLoop]_vars

----------------------------------------------------------------------------
(* RX claims.  hist[1] is the sample of the latest tick, hist[2] the one     *)
(* before, hist[3] the one before that; .rst is cd_eth_rx.rst as the        *)
(* registers saw it at that tick.                                            *)

\* the rising-edge sub-sample of the control line k ticks back
CtlRise(k) == hist[k].ctl[1]

\* the two latest ticks clocked the self.sync registers with cd_eth_rx.rst low
RxRunning == Len(hist) >= PipelineDepth /\ hist[1].rst = 0 /\ hist[2].rst = 0

\* C1: with the RX domain reset deasserted, source.valid three ticks after a
\* sample equals the rising-edge sub-sample of the control line of that
\* sample (DDR capture, rx_ctl_reg, source.valid), for every tap setting; an
\* assertion at T therefore shows at T+3, not at T+1 or T+2.
C1_RxLatency == RxRunning => source_valid = CtlRise(PipelineDepth)

\* a lone assertion three ticks back is on the output now, taps at the maximum
C1_Witness ==
    /\ RxRunning
    /\ rx_obj.rx_delay_taps = 15
    /\ CtlRise(3) = 1 /\ CtlRise(2) = 0 /\ CtlRise(1) = 0
    /\ source_valid = 1

\* C2: with the RX domain reset deasserted, source.last is high exactly on
\* the tick three after the final sample of a frame (control 1 followed by
\* control 0), so once per frame and never without a frame, and it is never
\* high on two consecutive ticks.
C2_LastOncePerFrame ==
    /\ RxRunning => (source_last = 1 <=> (CtlRise(3) = 1 /\ CtlRise(2) = 0))
    /\ (Len(hist) >= 1 /\ prev.last = 1) => source_last = 0

\* the end of a frame of one byte: 0 1 0 on the control line, last high
C2_Witness ==
    /\ RxRunning
    /\ CtlRise(3) = 1 /\ CtlRise(2) = 0
    /\ prev.valid = 0
    /\ source_last = 1

\* C3 as stated: with the pipeline running, where source.last is high,
\* source.valid is low and was high the tick before.
C3_LastAfterFinalByte ==
    (RxRunning /\ source_last = 1) => (source_valid = 0 /\ prev.valid = 1)

\* C3, amended: where source.last is high source.valid is high too (last
\* accompanies the final byte), and source.valid is low on the tick after.
C3_LastWithFinalByte ==
    /\ source_last = 1 => source_valid = 1
    /\ (Len(hist) >= 1 /\ prev.last = 1) => source_valid = 0

\* the tick after the final byte of a frame
C3_Witness ==
    /\ RxRunning
    /\ prev.last = 1 /\ prev.valid = 1
    /\ source_valid = 0 /\ source_last = 0

\* C5: after any tick taken while the effective reset is asserted, and after
\* any tick clocked with cd_eth_rx.rst high, source.valid and source.last are
\* low whatever the lines carry; they are still low after the first tick
\* clocked with cd_eth_rx.rst low.
C5_RxReset ==
    /\ (reset = 1 /\ rst_ticks >= 1) => (source_valid = 0 /\ source_last = 0)
    /\ (Len(hist) >= 1 /\ hist[1].rst = 1) => (source_valid = 0 /\ source_last = 0)
    /\ (Len(hist) >= 2 /\ hist[2].rst = 1 /\ hist[1].rst = 0)
          => (source_valid = 0 /\ source_last = 0)

\* the first tick out of reset, the control line high all along
C5_Witness ==
    /\ Len(hist) >= 3
    /\ hist[3].rst = 1 /\ hist[2].rst = 1 /\ hist[1].rst = 0
    /\ CtlRise(3) = 1 /\ CtlRise(2) = 1 /\ CtlRise(1) = 1
    /\ reset = 0
    /\ Bit(rx_ctl_reg, 0) = 1
    /\ source_valid = 0

----------------------------------------------------------------------------
(* TX claims.  sink_valid, sink_data are the element offered at the latest  *)
(* tick, pads_tx_ctl and pads_tx_data what the lines carry after it.        *)

\* the nibble the four data lines carry on the rising / falling sub-sample
RiseNibble(lines) == lines[0][1] + 2 * lines[1][1] + 4 * lines[2][1] + 8 * lines[3][1]
FallNibble(lines) == lines[0][2] + 2 * lines[1][2] + 4 * lines[2][2] + 8 * lines[3][2]

\* C4: after every TX tick, data line i carries bit i of the offered byte on
\* the rising and bit 4+i on the falling sub-sample, i.e. the low nibble then
\* the high nibble (0x00, 0xFF, 0xAA give (0,0), (15,15), (10,10)), and the
\* control line carries the offered valid bit on both sub-samples.
C4_TxEncode ==
    Len(hist) >= 1 =>
        /\ \A i \in 0..3 : pads_tx_data[i] = <<Bit(sink_data, i), Bit(sink_data, 4 + i)>>
        /\ RiseNibble(pads_tx_data) = sink_data % 16
        /\ FallNibble(pads_tx_data) = sink_data \div 16
        /\ sink_data = 0 => (RiseNibble(pads_tx_data) = 0 /\ FallNibble(pads_tx_data) = 0)
        /\ sink_data = 255 => (RiseNibble(pads_tx_data) = 15 /\ FallNibble(pads_tx_data) = 15)
        /\ sink_data = 170 => (RiseNibble(pads_tx_data) = 10 /\ FallNibble(pads_tx_data) = 10)
        /\ pads_tx_ctl = <<sink_valid, sink_valid>>

\* byte 0x4B offered with valid: 0xB on the rising, 0x4 on the falling sub-sample
C4_Witness ==
    /\ Len(hist) >= 1
    /\ sink_valid = 1 /\ sink_data = 75
    /\ RiseNibble(pads_tx_data) = 11 /\ FallNibble(pads_tx_data) = 4
    /\ pads_tx_ctl = <<1, 1>>

\* C6 as stated: after a tick taken while the effective reset is asserted the
\* transmitted control line is idle on both sub-samples, whatever sink.valid is.
C6_TxIdleInReset == (reset = 1 /\ rst_ticks >= 1) => pads_tx_ctl = <<0, 0>>

\* C6, amended: the TX path has no register under the domain reset; after a
\* tick taken while the effective reset is asserted the control line carries
\* sink.valid on both sub-samples, so it is idle exactly when sink.valid is 0.
C6_TxFollowsSinkInReset ==
    (reset = 1 /\ rst_ticks >= 1) =>
        /\ pads_tx_ctl = <<sink_valid, sink_valid>>
        /\ pads_tx_ctl = <<0, 0>> <=> sink_valid = 0

\* valid offered under reset is on the control line
C6_Witness ==
    /\ reset = 1 /\ rst_ticks >= 1 /\ cd_eth_tx_rst = 1
    /\ sink_valid = 1
    /\ pads_tx_ctl = <<1, 1>>

\* C7: sink.ready is 1 in every state, in and out of reset and whatever the
\* RX side does, and an element offered with valid is on the lines after the
\* tick it was offered at.
C7_SinkAlwaysReady ==
    /\ sink_ready = 1
    /\ (Len(hist) >= 1 /\ sink_valid = 1) =>
          (pads_tx_ctl = <<1, 1>> /\ DDRInputData(pads_tx_data) = sink_data)

\* an element accepted under reset while the RX side outputs a byte
C7_Witness ==
    /\ sink_ready = 1
    /\ sink_valid = 1 /\ sink_data = 75
    /\ cd_eth_tx_rst = 1
    /\ prev.valid = 1

----------------------------------------------------------------------------
(* Construction specification: the arguments are drawn at the start, each   *)
(* constructor is then called with them.                                    *)

CharUpper(c) ==
    IF \E i \in 1..26 : LowerChars[i] = c
    THEN UpperChars[CHOOSE i \in 1..26 : LowerChars[i] = c]
    ELSE c

\* name with the letters at the positions in U in upper case
Cased(name, U) == [i \in 1..Len(name) |-> IF i \in U THEN CharUpper(name[i]) ELSE name[i]]

\* perf_mode arguments: every letter-case variant of "speed", lower, upper,
\* capitalised and mixed case of the other two names, and names not in the table
PerfModes ==
    {Cased(Speed, U) : U \in SUBSET (1..5)}
    \cup {Cased(Economy, U) : U \in {{}, {1}, 1..7, {2, 5}}}
    \cup {Cased(Lowpower, U) : U \in {{}, {1, 4}, 1..8, {8}}}
    \cup {<<"t", "u", "r", "b", "o">>, Undefined, <<>>, <<"s", "p", "e", "e">>,
          <<"s", "p", "e", "e", "d", " ">>, <<"T", "Y", "P">>}

\* delay arguments in picoseconds: zero, below one tap, whole multiples of a
\* tap, both sides of the 16-tap limit of each profile, the 2 ns default of
\* the RX path, and negative delays
DelaysPs == {0, 49, 350, 425, 799, 800, 1039, 1040, 1359, 1360, 2000, 0 - 10, 0 - 60}

\* every perf_mode with the default delays of the PHY and of the RX path,
\* and every pair of delays with one spelling of each profile and an unknown name
CfgInputs ==
    [perf_mode : PerfModes, tx_delay : {0}, rx_delay : {0, 2000}]
    \cup [perf_mode : {Speed, Cased(Economy, 1..7), Cased(Lowpower, {1, 4}), Undefined},
          tx_delay : DelaysPs, rx_delay : DelaysPs]

InitCfg ==
    /\ with_hw_init_reset = TRUE
    /\ reset_storage = 0
    /\ hw_reset = 1
    /\ rx_rst_sync = SyncAssert
    /\ tx_rst_sync = SyncAssert
    /\ rx_ctl = 0
    /\ rx_data = 0
    /\ rx_ctl_reg = 0
    /\ rx_ctl_reg_d = 0
    /\ rx_data_reg = 0
    /\ source_valid = 0
    /\ source_data = 0
    /\ sink_valid = 0
    /\ sink_data = 0
    /\ tx_ctl_oddrx1f = DDROutput(0, 0)
    /\ tx_data_oddrx1f = LinesOf(IdleByte)
    /\ hist = <<>>
    /\ prev = [valid |-> 0, last |-> 0]
    /\ rst_ticks = 0
    /\ eth_rx_ticks = 0
    /\ eth_tx_ticks = 0
    /\ sent = <<>>
    /\ cut_frame = 0
    /\ cfg \in CfgInputs
    /\ rx_obj = NoObj
    /\ crg_obj = NoObj
    /\ phy_obj = NoObj

NewRX ==
    /\ rx_obj = NoObj
    /\ rx_obj' = RXInit(FloatPs(cfg.rx_delay), cfg.perf_mode)
    /\ UNCHANGED <<crgVars, rxVars, txVars, obsVars, cfg, crg_obj, phy_obj>>

NewCRG ==
    /\ crg_obj = NoObj
    /\ crg_obj' = CRGInit(FloatPs(cfg.tx_delay), cfg.perf_mode)
    /\ UNCHANGED <<crgVars, rxVars, txVars, obsVars, cfg, rx_obj, phy_obj>>

NewPHY ==
    /\ phy_obj = NoObj
    /\ phy_obj' = PHYInit(FloatPs(cfg.tx_delay), FloatPs(cfg.rx_delay), cfg.perf_mode)
    /\ UNCHANGED <<crgVars, rxVars, txVars, obsVars, cfg, rx_obj, crg_obj>>

NextCfg == NewRX \/ NewCRG \/ NewPHY

SpecCfg == InitCfg /\ [][NextCfg]_vars

----------------------------------------------------------------------------
(* Construction claims.  The reference values are whole picoseconds.        *)

\* str equals name up to letter case
SameIgnoringCase(str, name) ==
    /\ Len(str) = Len(name)
    /\ \A i \in 1..Len(name) : str[i] = name[i] \/ str[i] = CharUpper(name[i])

ProfileNames == {Speed, Economy, Lowpower}
Recognised(str) == \E name \in ProfileNames : SameIgnoringCase(str, name)
ProfileOf(str) == CHOOSE name \in ProfileNames : SameIgnoringCase(str, name)

\* worst-case delay of one tap, in picoseconds
WorstPs(name) == IF name = Speed THEN 50 ELSE IF name = Economy THEN 65 ELSE 85

\* floor(d / worst_tap_delay(perf_mode)) for d >= 0
FloorTaps(d, perf_mode) == d \div WorstPs(ProfileOf(perf_mode))

\* C8 as stated: the top-level PHY constructs exactly when perf_mode is
\* recognised and both tap counts lie in [0,16), and its RX tap count is then
\* floor(rx_delay / worst_tap_delay(perf_mode)).
C8_PhyConstructs ==
    phy_obj # NoObj =>
        IF /\ Recognised(cfg.perf_mode)
           /\ cfg.tx_delay >= 0 /\ FloorTaps(cfg.tx_delay, cfg.perf_mode) < 16
           /\ cfg.rx_delay >= 0 /\ FloorTaps(cfg.rx_delay, cfg.perf_mode) < 16
        THEN /\ phy_obj.status = "ok"
             /\ phy_obj.rx.rx_delay_taps = FloorTaps(cfg.rx_delay, cfg.perf_mode)
        ELSE (~Recognised(cfg.perf_mode)) => phy_obj.status # "ok"

\* C9: an RX path or CRG given a perf_mode that is not one of the three names
\* up to letter case ends in the lookup error; given any letter-case variant
\* of a name it passes the lookup with that profile's worst-case delay (50,
\* 65, 85 ps).
C9_ProfileLookup ==
    \A obj \in {rx_obj, crg_obj} :
        obj # NoObj =>
            IF Recognised(cfg.perf_mode)
            THEN /\ obj.status \in {"ok", "AssertionError"}
                 /\ obj.iodly = FloatPs(WorstPs(ProfileOf(cfg.perf_mode)))
            ELSE obj.status = "KeyError"

\* "SpEeD" is looked up as speed, by the RX path and the CRG
C9_Witness ==
    /\ cfg.perf_mode = <<"S", "p", "E", "e", "D">>
    /\ rx_obj # NoObj /\ rx_obj.status = "ok" /\ rx_obj.iodly = FloatPs(50)
    /\ crg_obj # NoObj /\ crg_obj.status = "ok" /\ crg_obj.iodly = FloatPs(50)

\* C10 as stated: for a whole number d >= 0 of picoseconds and a profile p,
\* the RX and the TX-clock tap count are floor(d / worst_tap_delay(p));
\* construction succeeds when that is below 16 and fails when it is 16 or more.
C10_TapsAreFloor ==
    /\ (rx_obj # NoObj /\ Recognised(cfg.perf_mode) /\ cfg.rx_delay >= 0) =>
          /\ rx_obj.rx_delay_taps = FloorTaps(cfg.rx_delay, cfg.perf_mode)
          /\ rx_obj.status = "ok" <=> FloorTaps(cfg.rx_delay, cfg.perf_mode) < 16
    /\ (crg_obj # NoObj /\ Recognised(cfg.perf_mode) /\ cfg.tx_delay >= 0) =>
          /\ crg_obj.tx_delay_taps = FloorTaps(cfg.tx_delay, cfg.perf_mode)
          /\ crg_obj.status = "ok" <=> FloorTaps(cfg.tx_delay, cfg.perf_mode) < 16

\* C11 as stated: every RX path or CRG that constructs has a tap count in
\* [0,16), for every delay including negative ones: a negative count is
\* rejected like one of 16 or more.
C11_TapsInRange ==
    /\ (rx_obj # NoObj /\ rx_obj.status = "ok") =>
          (0 <= rx_obj.rx_delay_taps /\ rx_obj.rx_delay_taps < 16)
    /\ (crg_obj # NoObj /\ crg_obj.status = "ok") =>
          (0 <= crg_obj.tx_delay_taps /\ crg_obj.tx_delay_taps < 16)

----------------------------------------------------------------------------
(* Reset claims *)

\* C12: the effective reset is the request bit OR the power-on pulse when
\* with_hw_init_reset is enabled and the request bit alone when it is not,
\* and the rst_n pad is its negation, in every state (so a change of the
\* request bit shows at once, without a tick).
C12_EffectiveReset ==
    /\ with_hw_init_reset => (reset = 1 <=> (reset_storage = 1 \/ hw_reset = 1))
    /\ ~with_hw_init_reset => (reset = 1 <=> reset_storage = 1)
    /\ reset \in 0..1
    /\ pads_rst_n = (IF reset = 1 THEN 0 ELSE 1)

\* after the pulse has ended, a write of 1 to the CSR has asserted the reset;
\* and the pulse alone asserts it with the request bit clear
C12_Witness ==
    /\ with_hw_init_reset
    /\ hw_reset = 0
    /\ reset_storage = 1
    /\ pads_rst_n = 0
    /\ Len(hist) >= 1

\* C13: whenever the effective reset is asserted the reset of both the eth_rx
\* and the eth_tx domain is asserted, in the same state, without a tick; a
\* domain's reset is released only by a step that leaves the reset inputs
\* alone, with the effective reset already low before it and the first
\* flip-flop of that domain's own synchronizer already clocked low, so never
\* in the instant of the deassertion.
C13_ResetSync ==
    /\ [](reset = 1 => (cd_eth_rx_rst = 1 /\ cd_eth_tx_rst = 1))
    /\ [][(cd_eth_rx_rst = 1 /\ cd_eth_rx_rst' = 0) =>
             /\ reset = 0 /\ reset' = 0
             /\ UNCHANGED <<reset_storage, hw_reset>>
             /\ rx_rst_sync[1] = 0]_vars
    /\ [][(cd_eth_tx_rst = 1 /\ cd_eth_tx_rst' = 0) =>
             /\ reset = 0 /\ reset' = 0
             /\ UNCHANGED <<reset_storage, hw_reset>>
             /\ tx_rst_sync[1] = 0]_vars

\* the power-on pulse has ended and one edge has passed: the effective reset
\* is low, the first flip-flops are low, both domains are still in reset
C13_Witness ==
    /\ with_hw_init_reset
    /\ reset = 0
    /\ rx_rst_sync = <<0, 1>>
    /\ tx_rst_sync = <<0, 1>>
    /\ cd_eth_rx_rst = 1
    /\ cd_eth_tx_rst = 1
    /\ Len(hist) >= 1

----------------------------------------------------------------------------
(* RX data claims *)

\* the rising / falling sample of data line i at the tick k ticks back
DataRise(k, i) == hist[k].data[i][1]
DataFall(k, i) == hist[k].data[i][2]

\* C14: with the RX reset deasserted, source.data after the third tick from
\* a sample has, in bits 0..3, the rising samples of data lines 0..3 of that
\* sample and, in bits 4..7, its falling samples; it is the sample that
\* decides source.valid, and the value before the latest tick came, the same
\* way, from the sample before it, so bytes leave in the order they arrived,
\* one per tick, none dropped or repeated, and nothing older than three
\* ticks shows.
C14_RxData ==
    RxRunning =>
       /\ \A i \in 0..3 :
             /\ Bit(source_data, i) = DataRise(PipelineDepth, i)
             /\ Bit(source_data, 4 + i) = DataFall(PipelineDepth, i)
       /\ source_data \in 0..255
       /\ source_valid = CtlRise(PipelineDepth)
       /\ \A i \in 0..3 :
             /\ Bit(rx_data_reg, i) = DataRise(2, i)
             /\ Bit(rx_data_reg, 4 + i) = DataFall(2, i)
       /\ \A i \in 0..3 :
             /\ Bit(rx_data, i) = DataRise(1, i)
             /\ Bit(rx_data, 4 + i) = DataFall(1, i)

\* the byte 0x4B, whose nibbles differ, has come out valid, with other
\* bytes behind it in the pipeline
C14_Witness ==
    /\ RxRunning
    /\ source_valid = 1
    /\ source_data = 75
    /\ hist[PipelineDepth].data = LinesOf(75)
    /\ hist[2].data = LinesOf(0)
    /\ hist[1].data = LinesOf(75)

----------------------------------------------------------------------------
(* Domain independence *)

\* the RX registers after an edge, from the RX registers s before it (in the
\* order of rxVars), the sample on the RX lines and the eth_rx reset alone
RxOnly(s, sample, rst) ==
    <<sample.ctl[1] + 2 * sample.ctl[2],
      IF rst = 1 THEN 0 ELSE s[1],
      IF rst = 1 THEN 0 ELSE s[2],
      DDRInputData(sample.data),
      IF rst = 1 THEN 0 ELSE s[4],
      IF rst = 1 THEN 0 ELSE s[2] % 2,
      IF rst = 1 THEN 0 ELSE s[5]>>

\* the TX registers after an edge (in the order of txVars), from the element
\* (v, d) offered to the sink alone
TxOnly(v, d) ==
    <<v, d, <<v, v>>, [i \in 0..3 |-> <<Bit(d, i), Bit(d, 4 + i)>>]>>

\* C15: the two domains do not influence each other. Every step either
\* leaves both domains' registers alone or is an edge after which the RX
\* registers are a function of the RX registers before it, the RX line sample
\* and the eth_rx reset, and the TX registers and pads a function of the
\* element offered to the sink; so two runs that agree on the RX lines and
\* the reset agree on the RX outputs whatever the sink receives, two runs
\* that agree on the sink agree on the TX lines, and neither domain reads a
\* register the other writes.
C15_DomainIndependence ==
    [][\/ UNCHANGED <<rxVars, txVars, hist, prev>>
       \/ /\ Len(hist') >= 1
          /\ rxVars' = RxOnly(rxVars, hist'[1], cd_eth_rx_rst)
          /\ txVars' = TxOnly(sink_valid', sink_data')
          /\ <<pads_tx_ctl', pads_tx_data'>> = <<TxOnly(sink_valid', sink_data')[3],
                                                 TxOnly(sink_valid', sink_data')[4]>>]_vars

\* both domains busy at once with different bytes: 0x4B leaves the source
\* while the sink takes 0x00, and conversely
C15_Witness ==
    /\ RxRunning
    /\ source_valid = 1
    /\ source_data = 75
    /\ sink_valid = 1
    /\ sink_data = 0
    /\ prev.valid = 1

----------------------------------------------------------------------------
(* Clock claims *)

\* C16: the eth_tx clock is the eth_rx clock: for either level of the clock
\* pad the two domain clocks are equal, every edge of one is an edge of the
\* other, and the two domains have taken the same number of ticks in every
\* state.
C16_SharedClock ==
    /\ \A level \in 0..1 : cd_eth_tx_clk(level) = cd_eth_rx_clk(level)
    /\ \A level \in 0..1 : cd_eth_rx_clk(level) = level
    /\ eth_tx_ticks = eth_rx_ticks

\* both domains have taken two ticks, with a reset write in between or not
C16_Witness ==
    /\ eth_rx_ticks = 2
    /\ eth_tx_ticks = 2
    /\ Len(hist) = 2
    /\ sink_valid = 1

----------------------------------------------------------------------------
(* RX control claims *)

\* C17: in every state, under reset or not, source.valid equals bit 0 of
\* rx_ctl_reg_d, so source.last is NOT rx_ctl_reg[0] AND source.valid, and
\* last high implies valid high at the same tick.
C17_ValidIsDelayedCtl ==
    /\ source_valid = Bit(rx_ctl_reg_d, 0)
    /\ source_last = (IF Bit(rx_ctl_reg, 0) = 0 /\ source_valid = 1 THEN 1 ELSE 0)
    /\ source_last = 1 => source_valid = 1

\* the final byte of a frame is at the source, last and valid both high,
\* at the moment the effective reset is asserted
C17_Witness ==
    /\ source_last = 1
    /\ source_valid = 1
    /\ Bit(rx_ctl_reg_d, 0) = 1
    /\ reset = 1
    /\ Len(hist) >= PipelineDepth

----------------------------------------------------------------------------
(* Loopback *)

\* the element the sink took k ticks before the latest one
SentAgo(k) == sent[k + 1]

LoopRunning == RxRunning /\ Len(sent) >= PipelineDepth + 1

\* C18: with the TX pads wired to the RX pads and the RX reset deasserted,
\* the source shows the valid and data the sink took three ticks before the
\* latest one, bit for bit, so the elements leave in the order they were
\* offered, and last is high exactly on the final element of each run of
\* consecutive valid elements.
C18_Loopback ==
    LoopRunning =>
       /\ source_valid = SentAgo(PipelineDepth).valid
       /\ \A i \in 0..7 : Bit(source_data, i) = Bit(SentAgo(PipelineDepth).data, i)
       /\ source_data = SentAgo(PipelineDepth).data
       /\ source_last = 1 <=>
             (SentAgo(PipelineDepth).valid = 1 /\ SentAgo(PipelineDepth - 1).valid = 0)

\* the sink took two valid elements, the second 0x4B, then one that was not
\* valid: 0x4B is at the source, valid, with last high
C18_Witness ==
    /\ LoopRunning
    /\ SentAgo(PipelineDepth) = [valid |-> 1, data |-> 75]
    /\ SentAgo(PipelineDepth - 1).valid = 0
    /\ prev.valid = 1
    /\ prev.last = 0
    /\ source_valid = 1
    /\ source_data = 75
    /\ source_last = 1

----------------------------------------------------------------------------
(* A frame interrupted by a reset *)

\* C19 as stated: once the effective reset has been asserted while
\* source.valid was high and the control line still high, last is not
\* asserted for that frame, at the reset or at any later tick: not while the
\* frame is still on the line, and not where its end would be marked.
C19_NoLastForCutFrame == cut_frame \in 1..3 => source_last = 0

\* C19 as amended: source.valid drops at the first tick under the reset; last
\* stays low for the interrupted frame at the reset, while the control line
\* stays high and at the edge where it falls; one edge later last is high,
\* together with valid, exactly when the eth_rx reset was low at the latest
\* two edges, that is when the reset was released before the line fell.
C19_LastForCutFrameIffReleased ==
    /\ (cut_frame \in 1..3 /\ reset = 1 /\ rst_ticks >= 1) => source_valid = 0
    /\ cut_frame \in 1..2 => source_last = 0
    /\ cut_frame = 3 =>
          (source_last = 1 <=> (hist[1].rst = 0 /\ hist[2].rst = 0))
    /\ (cut_frame = 3 /\ source_last = 1) => source_valid = 1

\* the rest of an interrupted frame has come out after the reset, and its
\* final byte carries last
C19_Witness ==
    /\ cut_frame = 3
    /\ reset = 0
    /\ cd_eth_rx_rst = 0
    /\ source_valid = 1
    /\ source_last = 1
    /\ hist[3].ctl[1] = 1
    /\ hist[2].ctl[1] = 0

----------------------------------------------------------------------------
(* The falling-edge control sample *)

\* the RX registers s (in the order of rxVars) without bit 1 of rx_ctl,
\* rx_ctl_reg and rx_ctl_reg_d
WithoutCtlFall(s) == <<s[1] % 2, s[2] % 2, s[3] % 2, s[4], s[5], s[6], s[7]>>

\* that projection after an edge, from the projection w before it, the
\* rising control sample, the data lines and the eth_rx reset
StepWithoutCtlFall(w, ctlRise, data, rst) ==
    <<ctlRise,
      IF rst = 1 THEN 0 ELSE w[1],
      IF rst = 1 THEN 0 ELSE w[2],
      DDRInputData(data),
      IF rst = 1 THEN 0 ELSE w[4],
      IF rst = 1 THEN 0 ELSE w[2],
      IF rst = 1 THEN 0 ELSE w[5]>>

\* C20: the falling-edge control sample rx_ctl[1] never reaches an output.
\* In every state valid, data and last are functions of the registers
\* without their bit 1, and every edge maps those to a function of
\* themselves, the rising control sample, the data lines and the reset; so
\* two input sequences that agree on the data lines and the rising control
\* samples give the same valid, data and last. A byte whose falling control
\* sample differs from the rising one comes out like any other: valid
\* follows the rising sample.
C20_CtlFallIgnored ==
    /\ [](/\ source_valid = WithoutCtlFall(rxVars)[6]
          /\ source_data = WithoutCtlFall(rxVars)[7]
          /\ source_last = (1 - WithoutCtlFall(rxVars)[2]) * WithoutCtlFall(rxVars)[3])
    /\ [][\/ UNCHANGED <<rxVars, hist, prev>>
          \/ /\ Len(hist') >= 1
             /\ WithoutCtlFall(rxVars') =
                   StepWithoutCtlFall(WithoutCtlFall(rxVars), hist'[1].ctl[1],
                                      hist'[1].data, cd_eth_rx_rst)]_vars
    /\ [](RxRunning =>
            /\ source_valid = hist[PipelineDepth].ctl[1]
            /\ source_data = DDRInputData(hist[PipelineDepth].data))

\* a byte sampled with the control line high on the rising and low on the
\* falling edge is at the source, valid; rx_ctl_reg_d holds the pair
C20_Witness ==
    /\ RxRunning
    /\ hist[PipelineDepth].ctl = <<1, 0>>
    /\ hist[PipelineDepth].data = LinesOf(75)
    /\ rx_ctl_reg_d = 1
    /\ source_valid = 1
    /\ source_data = 75

====
